---------------------------- MODULE Spec2Model ----------------------------
(***************************************************************************)
(* A model of src/Final.py: the work-log analyzer.                         *)
(*                                                                         *)
(*   ProjectRecord   the record model and its lenient parsing              *)
(*   DataParser      load_data: header skip, blank skip, field count,      *)
(*                   validity, error count, fatal read failures            *)
(*   ProjectAnalyzer time efficiency, module load, risk                    *)
(*   ReportGenerator the three report sections and the risk verdict        *)
(*   run_analysis    the load / analyze / render pipeline                  *)
(*                                                                         *)
(* Three specifications share the variables:                               *)
(*   Spec            run_analysis on a file read row by row                *)
(*   SpecAnalyzer    ProjectAnalyzer.run_all_analysis on a record list     *)
(*   SpecRiskReport  ReportGenerator.generate_risk_report on risk counts   *)
(*                                                                         *)
(* Python floats are modelled as exact rationals extended with inf and     *)
(* nan (rounding is not modelled); a datetime is the integer yyyymmdd;     *)
(* None is the integer 0 where a date is expected.                         *)
(***************************************************************************)
EXTENDS Integers, Sequences, FiniteSets, TLC

VARIABLES
    pc,           \* position of run_analysis / load_data
    rows,         \* the rows csv.reader has yielded so far (header first)
    records,      \* DataParser.records, then ProjectAnalyzer.records
    error_count,  \* DataParser.error_count
    ret,          \* what load_data returned: "none" (not yet), "True", "False"
    results,      \* ProjectAnalyzer.analysis_results
    out           \* what has been printed, in order

vars == <<pc, rows, records, error_count, ret, results, out>>

---------------------------------------------------------------------------
(* Bounds *)

\* data rows read after the header
MaxRows == 2
\* fields of a row (5 are consumed, more are excess)
MaxFields == 6
\* records handed to the analyzer in SpecAnalyzer
MaxRecords == 3
\* total_count handed to the risk report in SpecRiskReport
MaxTotal == 20

---------------------------------------------------------------------------
(* Python float: exact rationals n/d (d > 0, lowest terms), inf, nan *)

Abs(x) == IF x < 0 THEN -x ELSE x

RECURSIVE GCD(_, _)
GCD(a, b) == IF b = 0 THEN a ELSE GCD(b, a % b)

Rat(n, d) ==
    LET g == GCD(Abs(n), d)
    IN  [k |-> "fin", n |-> n \div g, d |-> d \div g]

Fin(n) == [k |-> "fin", n |-> n, d |-> 1]
Inf == [k |-> "inf", n |-> 0, d |-> 1]
NaN == [k |-> "nan", n |-> 0, d |-> 1]

\* a + b  (no -inf arises: every summand is a valid duration or a percentage)
FAdd(a, b) ==
    IF a.k = "nan" \/ b.k = "nan" THEN NaN
    ELSE IF a.k = "inf" \/ b.k = "inf" THEN Inf
    ELSE Rat(a.n * b.d + b.n * a.d, a.d * b.d)

\* a / b for b > 0 (every division in the source is guarded by b > 0)
FDiv(a, b) ==
    IF a.k = "nan" \/ b.k = "nan" THEN NaN
    ELSE IF a.k = "inf" THEN (IF b.k = "inf" THEN NaN ELSE Inf)
    ELSE IF b.k = "inf" THEN Fin(0)
    ELSE Rat(a.n * b.d, a.d * b.n)

\* a * m for an integer m > 0
FMul(a, m) == IF a.k = "fin" THEN Rat(a.n * m, a.d) ELSE a

\* a > b, a >= b, a == b: every comparison with nan is False
FGt(a, b) ==
    /\ a.k # "nan" /\ b.k # "nan"
    /\ IF a.k = "inf" THEN b.k # "inf"
       ELSE b.k = "fin" /\ a.n * b.d > b.n * a.d

FEq(a, b) == a.k # "nan" /\ b.k # "nan" /\ a = b

FGe(a, b) == FGt(a, b) \/ FEq(a, b)

\* int(a): truncation; raises on nan (ValueError) and inf (OverflowError)
IntRaises(a) == a.k # "fin"
int(a) == a.n \div a.d

\* float(s) on the literals the model feeds it; any other text raises ValueError
FloatLiterals ==
    ("4" :> Fin(4)) @@ ("2" :> Fin(2)) @@ ("0" :> Fin(0)) @@ ("-1" :> Fin(-1))
    @@ ("inf" :> Inf) @@ ("nan" :> NaN)

FloatRaises(s) == s \notin DOMAIN FloatLiterals
float(s) == FloatLiterals[s]

---------------------------------------------------------------------------
(* Text: a str is a TLA+ string; Chars gives its characters *)

Chars ==
    ("" :> <<>>)
    @@ ("2024-01-01" :> <<"2","0","2","4","-","0","1","-","0","1">>)
    @@ ("2024-01-02" :> <<"2","0","2","4","-","0","1","-","0","2">>)
    @@ (" 2024-01-02 " :> <<" ","2","0","2","4","-","0","1","-","0","2"," ">>)
    @@ ("2024-13-40" :> <<"2","0","2","4","-","1","3","-","4","0">>)
    @@ ("2023-02-29" :> <<"2","0","2","3","-","0","2","-","2","9">>)
    @@ ("Auth" :> <<"A","u","t","h">>)
    @@ ("auth" :> <<"a","u","t","h">>)
    @@ ("UI" :> <<"U","I">>)
    @@ (" UI " :> <<" ","U","I"," ">>)
    @@ ("Done" :> <<"D","o","n","e">>)
    @@ ("ok" :> <<"o","k">>)
    @@ ("Delay" :> <<"D","e","l","a","y">>)
    @@ ("Delay Bug" :> <<"D","e","l","a","y"," ","B","u","g">>)
    @@ ("delay bug" :> <<"d","e","l","a","y"," ","b","u","g">>)
    @@ ("debug risk" :> <<"d","e","b","u","g"," ","r","i","s","k">>)
    @@ ("bug" :> <<"b","u","g">>)
    @@ ("delay" :> <<"d","e","l","a","y">>)
    @@ ("risk" :> <<"r","i","s","k">>)
    @@ ("difficulty" :> <<"d","i","f","f","i","c","u","l","t","y">>)
    @@ ("blocker" :> <<"b","l","o","c","k","e","r">>)
    @@ ("error" :> <<"e","r","r","o","r">>)
    @@ ("failure" :> <<"f","a","i","l","u","r","e">>)
    @@ ("challenge" :> <<"c","h","a","l","l","e","n","g","e">>)
    @@ ("problem" :> <<"p","r","o","b","l","e","m">>)
    @@ ("problematic" :> <<"p","r","o","b","l","e","m","a","t","i","c">>)
    @@ ("poor" :> <<"p","o","o","r">>)
    @@ ("crash" :> <<"c","r","a","s","h">>)
    @@ ("tricky" :> <<"t","r","i","c","k","y">>)

Text == DOMAIN Chars

\* the str with the given characters
Str(cs) == CHOOSE t \in Text : Chars[t] = cs

UpperToLower ==
    ("A" :> "a") @@ ("B" :> "b") @@ ("D" :> "d") @@ ("I" :> "i") @@ ("U" :> "u")

\* str.strip(): leading and trailing whitespace removed
strip(s) ==
    LET cs == Chars[s]
        inner == {i \in 1..Len(cs) : cs[i] # " "}
    IN  IF inner = {} THEN ""
        ELSE LET lo == CHOOSE i \in inner : \A j \in inner : i <= j
                 hi == CHOOSE i \in inner : \A j \in inner : i >= j
             IN  Str(SubSeq(cs, lo, hi))

\* str.lower()
lower(s) ==
    LET cs == Chars[s]
    IN  Str([i \in 1..Len(cs) |->
                IF cs[i] \in DOMAIN UpperToLower THEN UpperToLower[cs[i]] ELSE cs[i]])

\* word in s: substring containment
Contains(s, word) ==
    LET cs == Chars[s]
        w == Chars[word]
    IN  \E i \in 1..(Len(cs) - Len(w) + 1) : SubSeq(cs, i, i + Len(w) - 1) = w

Digit ==
    ("0" :> 0) @@ ("1" :> 1) @@ ("2" :> 2) @@ ("3" :> 3) @@ ("4" :> 4)
    @@ ("5" :> 5) @@ ("6" :> 6) @@ ("7" :> 7) @@ ("8" :> 8) @@ ("9" :> 9)

IsLeap(y) == (y % 4 = 0 /\ y % 100 # 0) \/ y % 400 = 0

DaysInMonth(y, m) ==
    IF m = 2 THEN (IF IsLeap(y) THEN 29 ELSE 28)
    ELSE IF m \in {4, 6, 9, 11} THEN 30 ELSE 31

\* datetime.strptime(s, "%Y-%m-%d") on zero-padded text: the date as yyyymmdd,
\* or 0 where strptime raises ValueError
strptime(s) ==
    LET cs == Chars[s]
    IN  IF /\ Len(cs) = 10
           /\ cs[5] = "-" /\ cs[8] = "-"
           /\ \A i \in {1, 2, 3, 4, 6, 7, 9, 10} : cs[i] \in DOMAIN Digit
        THEN LET y == 1000 * Digit[cs[1]] + 100 * Digit[cs[2]]
                      + 10 * Digit[cs[3]] + Digit[cs[4]]
                 m == 10 * Digit[cs[6]] + Digit[cs[7]]
                 d == 10 * Digit[cs[9]] + Digit[cs[10]]
             IN  IF y >= 1 /\ m \in 1..12 /\ d \in 1..DaysInMonth(y, m)
                 THEN 10000 * y + 100 * m + d
                 ELSE 0
        ELSE 0

\* date.strftime("%Y-%m-%d")
strftime(date) ==
    CHOOSE t \in Text : strip(t) = t /\ strptime(t) = date

---------------------------------------------------------------------------
(* ProjectRecord *)

NEGATIVE_WORDS ==
    <<"bug", "delay", "risk", "difficulty", "blocker", "error",
      "failure", "challenge", "problem", "poor", "crash", "tricky">>

\* ProjectRecord.__init__: parse failures degrade to None (0) and 0.0
ProjectRecord(date_str, module, duration, status, summary) ==
    [date_str |-> date_str,
     module   |-> strip(module),
     date     |-> strptime(strip(date_str)),
     duration |-> IF FloatRaises(duration) THEN Fin(0) ELSE float(duration),
     status   |-> strip(status),
     summary  |-> lower(strip(summary))]

\* from_row as it would be without the slice to the first five fields: a row
\* that does not have exactly 5 fields yields no record
from_row_exactly_five(row) ==
    IF Len(row) # 5 THEN <<>>
    ELSE <<ProjectRecord(row[1], row[2], row[3], row[4], row[5])>>

\* ProjectRecord.from_row: <<>> is None, <<r>> is the record r
from_row(row) ==
    IF Len(row) < 5 THEN <<>>
    ELSE <<ProjectRecord(row[1], row[2], row[3], row[4], row[5])>>

\* is_valid with a non-strict duration test
is_valid_nonnegative(r) == r.date # 0 /\ FGe(r.duration, Fin(0))

is_valid(r) == r.date # 0 /\ FGt(r.duration, Fin(0))

has_negative_sentiment(r) ==
    \E i \in 1..Len(NEGATIVE_WORDS) : Contains(r.summary, NEGATIVE_WORDS[i])

---------------------------------------------------------------------------
(* The rows a file can hold *)

Blank(n) == [i \in 1..n |-> ""]

\* the row r followed by excess fields up to n fields
Extend(r, n) == r \o [i \in 1..(n - Len(r)) |-> "x"]

WellFormed == <<"2024-01-01", "Auth", "4", "Done", "bug">>

FiveFieldRows ==
    {<<"2024-01-01", "Auth", d, "Done", "bug">> :
        d \in {"4", "0", "-1", "abc", "inf", "nan"}}
    \cup {<<"2024-13-40", "Auth", "4", "Done", "bug">>,
          <<"2023-02-29", "Auth", "abc", "Done", "bug">>,
          <<" 2024-01-02 ", " UI ", "2", "Done", "Delay">>,
          Blank(5)}

Rows ==
    {Blank(n) : n \in 0..4}
    \cup {SubSeq(WellFormed, 1, n) : n \in 1..4}
    \cup {Extend(r, n) : r \in FiveFieldRows, n \in 5..MaxFields}
    \cup {Blank(n) : n \in 6..MaxFields}

HeaderRows ==
    {<<"Date", "Module", "Duration", "Status", "Summary">>, WellFormed, <<>>}

---------------------------------------------------------------------------
(* What is printed *)

Line(stream, msg, args) == [stream |-> stream, msg |-> msg, args |-> args]

Welcome == Line("stdout", "welcome", <<>>)
FatalNotFound == Line("stderr", "fatal_csv_not_found", <<>>)
FatalParsing == Line("stderr", "fatal_error_during_parsing", <<>>)
ParseComplete(loaded, skipped) ==
    Line("stdout", "data_parsing_complete", <<loaded, skipped>>)
TerminatedParseFailure == Line("stdout", "terminated_parsing_failure", <<>>)
TerminatedNoRecords == Line("stdout", "no_valid_records", <<>>)

---------------------------------------------------------------------------
(* ProjectAnalyzer *)

\* sum(r.duration for r in records)
RECURSIVE SumDurations(_)
SumDurations(recs) ==
    IF recs = <<>> THEN Fin(0)
    ELSE FAdd(SumDurations(SubSeq(recs, 1, Len(recs) - 1)), recs[Len(recs)].duration)

\* dates = [r.date for r in self.records]
Dates(recs) == [i \in 1..Len(recs) |-> recs[i].date]

\* min(dates), max(dates)
MinDate(dates) ==
    CHOOSE d \in {dates[i] : i \in 1..Len(dates)} :
        \A j \in 1..Len(dates) : d <= dates[j]
MaxDate(dates) ==
    CHOOSE d \in {dates[i] : i \in 1..Len(dates)} :
        \A j \in 1..Len(dates) : d >= dates[j]

\* work days counted per record instead of per distinct date
WorkDaysPerRecord(dates) == Len(dates)

\* len(set(dates))
WorkDays(dates) == Cardinality({dates[i] : i \in 1..Len(dates)})

\* analysis_results['time']
analyze_time_efficiency(recs) ==
    IF recs = <<>>
    THEN [total_duration |-> Fin(0), avg_daily |-> Fin(0)]
    ELSE LET total_duration == SumDurations(recs)
             dates == Dates(recs)
             work_days == WorkDays(dates)
         IN  [total_duration |-> total_duration,
              work_days      |-> work_days,
              start_date     |-> strftime(MinDate(dates)),
              end_date       |-> strftime(MaxDate(dates)),
              avg_daily      |-> IF work_days > 0
                                 THEN FDiv(total_duration, Fin(work_days))
                                 ELSE Fin(0)]

\* module_duration[r.module] += r.duration on a defaultdict(float): the dict as
\* the sequence of its items in insertion order
AddDuration(md, r) ==
    IF \E j \in 1..Len(md) : md[j].module = r.module
    THEN LET j == CHOOSE j \in 1..Len(md) : md[j].module = r.module
         IN  [md EXCEPT ![j].duration = FAdd(@, r.duration)]
    ELSE Append(md, [module |-> r.module, duration |-> FAdd(Fin(0), r.duration)])

RECURSIVE ModuleDuration(_)
ModuleDuration(recs) ==
    IF recs = <<>> THEN <<>>
    ELSE AddDuration(ModuleDuration(SubSeq(recs, 1, Len(recs) - 1)), recs[Len(recs)])

\* sum(module_duration.values())
RECURSIVE SumValues(_)
SumValues(md) ==
    IF md = <<>> THEN Fin(0)
    ELSE FAdd(SumValues(SubSeq(md, 1, Len(md) - 1)), md[Len(md)].duration)

\* (duration / total_duration) * 100 if total_duration > 0 else 0
Percentage(duration, total_duration) ==
    IF FGt(total_duration, Fin(0))
    THEN FMul(FDiv(duration, total_duration), 100)
    ELSE Fin(0)

ModuleLoad(md, total_duration) ==
    [j \in 1..Len(md) |->
        [module     |-> md[j].module,
         duration   |-> md[j].duration,
         percentage |-> Percentage(md[j].duration, total_duration)]]

\* sorted(items, key=..., reverse=True) as the order of the item indices: the
\* sort is stable, so an item goes before the first already placed item whose
\* key is strictly smaller
RECURSIVE SortedReverse(_)
SortedReverse(keys) ==
    IF keys = <<>> THEN <<>>
    ELSE LET n == Len(keys)
             done == SortedReverse(SubSeq(keys, 1, n - 1))
             smaller == {j \in 1..Len(done) : FGt(keys[n], keys[done[j]])}
             at == IF smaller = {} THEN Len(done) + 1
                   ELSE CHOOSE j \in smaller : \A l \in smaller : j <= l
         IN  SubSeq(done, 1, at - 1) \o <<n>> \o SubSeq(done, at, Len(done))

\* a descending sort that is not stable: equal durations come out in the
\* reverse of their insertion order
SortedModulesTiesReversed(module_load) ==
    LET n == Len(module_load)
        rev == [j \in 1..n |-> module_load[n + 1 - j]]
        order == SortedReverse([j \in 1..n |-> rev[j].duration])
    IN  [i \in 1..n |-> rev[order[i]]]

\* sorted(module_load.items(), key=lambda item: item[1]['duration'], reverse=True)
SortedModules(module_load) ==
    LET order == SortedReverse([j \in 1..Len(module_load) |-> module_load[j].duration])
    IN  [i \in 1..Len(order) |-> module_load[order[i]]]

\* analysis_results['modules'] and analysis_results['total_duration']
analyze_module_load(recs) ==
    LET module_duration == ModuleDuration(recs)
        total_duration == SumValues(module_duration)
    IN  [modules |-> SortedModules(ModuleLoad(module_duration, total_duration)),
         total_duration |-> total_duration]

\* word_counts[word] += 1 on a defaultdict(int), items in insertion order
AddWord(wc, word) ==
    IF \E j \in 1..Len(wc) : wc[j].word = word
    THEN LET j == CHOOSE j \in 1..Len(wc) : wc[j].word = word
         IN  [wc EXCEPT ![j].count = @ + 1]
    ELSE Append(wc, [word |-> word, count |-> 1])

\* for word in NEGATIVE_WORDS: if word in r.summary: word_counts[word] += 1
RECURSIVE CountWordsOf(_, _, _)
CountWordsOf(wc, r, n) ==
    IF n = 0 THEN wc
    ELSE LET before == CountWordsOf(wc, r, n - 1)
         IN  IF Contains(r.summary, NEGATIVE_WORDS[n])
             THEN AddWord(before, NEGATIVE_WORDS[n])
             ELSE before

\* for r in negative_records: ...
RECURSIVE WordCounts(_)
WordCounts(negs) ==
    IF negs = <<>> THEN <<>>
    ELSE CountWordsOf(WordCounts(SubSeq(negs, 1, Len(negs) - 1)),
                      negs[Len(negs)], Len(NEGATIVE_WORDS))

\* sorted(word_counts.items(), key=lambda item: item[1], reverse=True)[:3]
TopWords(word_counts) ==
    LET order == SortedReverse([j \in 1..Len(word_counts) |-> Fin(word_counts[j].count)])
        s == [i \in 1..Len(order) |-> word_counts[order[i]]]
    IN  SubSeq(s, 1, IF Len(s) < 3 THEN Len(s) ELSE 3)

\* analysis_results['risk']
analyze_risk(recs) ==
    IF recs = <<>>
    THEN [negative_count |-> 0, total_count |-> 0, top_words |-> <<>>]
    ELSE LET negative_records == SelectSeq(recs, has_negative_sentiment)
         IN  [negative_count |-> Len(negative_records),
              total_count    |-> Len(recs),
              top_words      |-> TopWords(WordCounts(negative_records))]

run_all_analysis(recs) ==
    LET m == analyze_module_load(recs)
    IN  [time           |-> analyze_time_efficiency(recs),
         modules        |-> m.modules,
         total_duration |-> m.total_duration,
         risk           |-> analyze_risk(recs)]

---------------------------------------------------------------------------
(* ReportGenerator *)

generate_time_report(res) ==
    LET time_data == res.time
    IN  <<Line("stdout", "time_efficiency_analysis", <<>>)>> \o
        (IF FEq(time_data.total_duration, Fin(0))
         THEN <<Line("stdout", "no_valid_work_duration_data", <<>>)>>
         ELSE <<Line("stdout", "project_span",
                     <<time_data.start_date, time_data.end_date>>),
                Line("stdout", "total_duration", <<time_data.total_duration>>),
                Line("stdout", "total_work_days", <<time_data.work_days>>),
                Line("stdout", "avg_daily_work", <<time_data.avg_daily>>)>>)

\* max_bar_width
MaxBarWidth == 30

\* percentage / 100 * max_bar_width, the argument of int()
BarLength(percentage) == FMul(FDiv(percentage, Fin(100)), MaxBarWidth)

\* the loop over module_data: the lines printed before int() raises, if it does
RECURSIVE ModuleLines(_)
ModuleLines(module_data) ==
    IF module_data = <<>> THEN [lines |-> <<>>, raised |-> FALSE]
    ELSE LET before == ModuleLines(SubSeq(module_data, 1, Len(module_data) - 1))
             data == module_data[Len(module_data)]
         IN  IF before.raised THEN before
             ELSE IF IntRaises(BarLength(data.percentage))
             THEN [lines |-> before.lines, raised |-> TRUE]
             ELSE [lines |-> Append(before.lines,
                                 Line("stdout", "module_bar",
                                      <<data.module, data.duration, data.percentage,
                                        int(BarLength(data.percentage))>>)),
                   raised |-> FALSE]

generate_module_report(res) ==
    LET head == <<Line("stdout", "module_workload_breakdown", <<res.total_duration>>)>>
    IN  IF res.modules = <<>>
        THEN [lines |-> Append(head, Line("stdout", "no_module_workload_data", <<>>)),
              raised |-> FALSE]
        ELSE LET body == ModuleLines(res.modules)
             IN  [lines |-> head \o body.lines, raised |-> body.raised]

\* (negative / total) * 100
NegativePercent(negative, total) == FMul(FDiv(Fin(negative), Fin(total)), 100)

\* the verdict with the boundaries left to the lower tier
AssessmentExclusive(negative_percent) ==
    IF FGt(negative_percent, Fin(30)) THEN "HIGH RISK"
    ELSE IF FGt(negative_percent, Fin(15)) THEN "MEDIUM RISK"
    ELSE "LOW RISK"

\* the tiered verdict
Assessment(negative_percent) ==
    IF FGe(negative_percent, Fin(30)) THEN "HIGH RISK"
    ELSE IF FGe(negative_percent, Fin(15)) THEN "MEDIUM RISK"
    ELSE "LOW RISK"

generate_risk_report(res) ==
    LET risk_data == res.risk
        total == risk_data.total_count
        negative == risk_data.negative_count
        top_words == risk_data.top_words
    IN  <<Line("stdout", "potential_risk_analysis", <<>>)>> \o
        (IF total = 0
         THEN <<Line("stdout", "no_records_for_risk_analysis", <<>>)>>
         ELSE <<Line("stdout", "total_records", <<total>>),
                Line("stdout", "records_with_risk_words",
                     <<negative, NegativePercent(negative, total)>>),
                Line("stdout", "ai_risk_assessment",
                     <<Assessment(NegativePercent(negative, total))>>)>>
              \o (IF top_words = <<>> THEN <<>>
                  ELSE <<Line("stdout", "most_frequent_negative_keywords", <<>>)>>
                       \o [i \in 1..Len(top_words) |->
                              Line("stdout", "keyword_occurred",
                                   <<top_words[i].word, top_words[i].count>>)]))

\* the lines printed, and whether an exception left the report unfinished
generate_full_report(res) ==
    LET title == <<Line("stdout", "report_title", <<>>)>>
        mod == generate_module_report(res)
    IN  IF mod.raised
        THEN [lines |-> title \o generate_time_report(res) \o mod.lines,
              raised |-> TRUE]
        ELSE [lines |-> title \o generate_time_report(res) \o mod.lines
                        \o generate_risk_report(res)
                        \o <<Line("stdout", "report_generated_on", <<>>)>>,
              raised |-> FALSE]

---------------------------------------------------------------------------
(* run_analysis with DataParser.load_data, one action per step *)

NoResults == [x \in {} |-> x]

Init ==
    /\ pc = "start"
    /\ rows = <<>>
    /\ records = <<>>
    /\ error_count = 0
    /\ ret = "none"
    /\ results = NoResults
    /\ out = <<>>

\* os.path.exists is False
FileNotFound ==
    /\ pc = "start"
    /\ out' = out \o <<Welcome, FatalNotFound>>
    /\ ret' = "False"
    /\ pc' = "load_returned"
    /\ UNCHANGED <<rows, records, error_count, results>>

\* open() raises: caught by except Exception
OpenFails ==
    /\ pc = "start"
    /\ out' = out \o <<Welcome, FatalParsing>>
    /\ ret' = "False"
    /\ pc' = "load_returned"
    /\ UNCHANGED <<rows, records, error_count, results>>

OpenFile ==
    /\ pc = "start"
    /\ out' = Append(out, Welcome)
    /\ pc' = "header"
    /\ UNCHANGED <<rows, records, error_count, ret, results>>

\* next(reader, None) on a file that has a first row
SkipHeader ==
    /\ pc = "header"
    /\ \E h \in HeaderRows : rows' = <<h>>
    /\ pc' = "rows"
    /\ UNCHANGED <<records, error_count, ret, results, out>>

\* load_data's success exit
LoadSucceeds ==
    /\ out' = Append(out, ParseComplete(Len(records), error_count))
    /\ ret' = "True"
    /\ pc' = "load_returned"
    /\ UNCHANGED <<rows, records, error_count, results>>

\* next(reader, None) on an empty file, and the loop body never runs
EmptyFile ==
    /\ pc = "header"
    /\ LoadSucceeds

\* the loop body with the field count tested before the blank-row skip
LoadRowCountFirst(row, recs, errs) ==
    LET record == from_row(row)
    IN  IF record = <<>> THEN [records |-> recs, error_count |-> errs + 1]
        ELSE IF \A i \in 1..Len(row) : row[i] = ""
        THEN [records |-> recs, error_count |-> errs]
        ELSE IF is_valid(record[1])
        THEN [records |-> Append(recs, record[1]), error_count |-> errs]
        ELSE [records |-> recs, error_count |-> errs + 1]

\* the body of the for loop on one row
LoadRow(row, recs, errs) ==
    IF \A i \in 1..Len(row) : row[i] = ""
    THEN [records |-> recs, error_count |-> errs]
    ELSE LET record == from_row(row)
         IN  IF record # <<>> /\ is_valid(record[1])
             THEN [records |-> Append(recs, record[1]), error_count |-> errs]
             ELSE [records |-> recs, error_count |-> errs + 1]

ReadRow ==
    /\ pc = "rows"
    /\ Len(rows) < MaxRows + 1
    /\ \E row \in Rows :
          LET after == LoadRow(row, records, error_count)
          IN  /\ rows' = Append(rows, row)
              /\ records' = after.records
              /\ error_count' = after.error_count
    /\ UNCHANGED <<pc, ret, results, out>>

\* the reader is exhausted
EndOfFile ==
    /\ pc = "rows"
    /\ LoadSucceeds

\* the reader raises (decoding, csv.Error, I/O): caught by except Exception
ReadFails ==
    /\ pc \in {"header", "rows"}
    /\ out' = Append(out, FatalParsing)
    /\ ret' = "False"
    /\ pc' = "load_returned"
    /\ UNCHANGED <<rows, records, error_count, results>>

\* if not parser.load_data(): ... return
TerminateParseFailure ==
    /\ pc = "load_returned"
    /\ ret = "False"
    /\ out' = Append(out, TerminatedParseFailure)
    /\ pc' = "done"
    /\ UNCHANGED <<rows, records, error_count, ret, results>>

\* if not parser.records: ... return
TerminateNoRecords ==
    /\ pc = "load_returned"
    /\ ret = "True"
    /\ records = <<>>
    /\ out' = Append(out, TerminatedNoRecords)
    /\ pc' = "done"
    /\ UNCHANGED <<rows, records, error_count, ret, results>>

\* analyzer = ProjectAnalyzer(parser.records); analyzer.run_all_analysis()
RunAllAnalysis ==
    /\ pc = "load_returned"
    /\ ret = "True"
    /\ records # <<>>
    /\ results' = run_all_analysis(records)
    /\ pc' = "analyzed"
    /\ UNCHANGED <<rows, records, error_count, ret, out>>

\* reporter = ReportGenerator(analysis_results); reporter.generate_full_report()
GenerateFullReport ==
    /\ pc = "analyzed"
    /\ LET report == generate_full_report(results)
       IN  /\ out' = out \o report.lines
           /\ pc' = IF report.raised THEN "raised" ELSE "done"
    /\ UNCHANGED <<rows, records, error_count, ret, results>>

Next ==
    \/ FileNotFound
    \/ OpenFails
    \/ OpenFile
    \/ SkipHeader
    \/ EmptyFile
    \/ ReadRow
    \/ EndOfFile
    \/ ReadFails
    \/ TerminateParseFailure
    \/ TerminateNoRecords
    \/ RunAllAnalysis
    \/ GenerateFullReport

Spec == Init /\ [][Next]_vars

---------------------------------------------------------------------------
(* ProjectAnalyzer and ReportGenerator on a list of valid records *)

SeqsUpTo(S, n) == UNION {[1..k -> S] : k \in 0..n}

\* records that differ in date, module and duration
LoadRecords ==
    {ProjectRecord(d, "Auth", "2", "Done", "ok") :
        d \in {"2024-01-01", "2024-01-02", " 2024-01-02 "}}
    \cup {ProjectRecord("2024-01-01", m, h, "Done", "ok") :
            m \in {"Auth", "auth", "UI"}, h \in {"2", "4", "inf"}}

\* records that differ in summary
RiskRecords ==
    {ProjectRecord("2024-01-01", "Auth", "4", "Done", s) :
        s \in {"ok", "bug", "delay", "Delay Bug", "risk", "error",
                "debug risk", "problematic"}}

AnalyzerInputs ==
    SeqsUpTo({r \in LoadRecords : is_valid(r)}, MaxRecords)
    \cup SeqsUpTo({r \in RiskRecords : is_valid(r)}, MaxRecords)

InitAnalyzer ==
    /\ pc = "analyzer"
    /\ rows = <<>>
    /\ records \in AnalyzerInputs
    /\ error_count = 0
    /\ ret = "none"
    /\ results = NoResults
    /\ out = <<>>

AnalyzerCall ==
    /\ pc = "analyzer"
    /\ results' = run_all_analysis(records)
    /\ pc' = "analyzed"
    /\ UNCHANGED <<rows, records, error_count, ret, out>>

NextAnalyzer ==
    \/ AnalyzerCall
    \/ GenerateFullReport

SpecAnalyzer == InitAnalyzer /\ [][NextAnalyzer]_vars

---------------------------------------------------------------------------
(* ReportGenerator.generate_risk_report on the counts of a risk result *)

InitRiskReport ==
    /\ pc = "risk_report"
    /\ rows = <<>>
    /\ records = <<>>
    /\ error_count = 0
    /\ ret = "none"
    /\ \E total \in 0..MaxTotal : \E negative \in 0..total :
          results = [risk |-> [negative_count |-> negative,
                               total_count    |-> total,
                               top_words      |-> <<>>]]
    /\ out = <<>>

RiskReportCall ==
    /\ pc = "risk_report"
    /\ out' = generate_risk_report(results)
    /\ pc' = "risk_reported"
    /\ UNCHANGED <<rows, records, error_count, ret, results>>

NextRiskReport == RiskReportCall

SpecRiskReport == InitRiskReport /\ [][NextRiskReport]_vars

---------------------------------------------------------------------------
(* Claims about DataParser.load_data and run_analysis, checked under Spec *)

IsBlank(row) == \A i \in 1..Len(row) : row[i] = ""

FirstFive(row) == SubSeq(row, 1, 5)

\* a step of the for loop: the reader yields one more data row
ReadStep == pc = "rows" /\ pc' = "rows" /\ Len(rows') = Len(rows) + 1

\* the row that step read
RowRead == rows'[Len(rows')]

\* what the loop body does to <<records, error_count>> on a given row
OutcomeOf(row) == LoadRow(row, records, error_count)

RowRejected == records' = records /\ error_count' = error_count + 1
RowSkipped == records' = records /\ error_count' = error_count

\* C1, as stated: every non-blank data row with fewer than 5 fields is rejected
\* (no record, error_count + 1, no exception), and every non-blank data row with
\* 5 or more fields has the outcome of the row truncated to its first 5 fields.
C1_AsStated ==
    [][ReadStep /\ ~IsBlank(RowRead) =>
          /\ Len(RowRead) < 5 => RowRejected /\ ret' = ret
          /\ Len(RowRead) >= 5 =>
                /\ records' \in {records,
                                  Append(records,
                                         ProjectRecord(RowRead[1], RowRead[2], RowRead[3],
                                                       RowRead[4], RowRead[5]))}
                /\ records' = OutcomeOf(FirstFive(RowRead)).records
                /\ error_count' = OutcomeOf(FirstFive(RowRead)).error_count]_vars

\* C1, amended: every non-blank data row with fewer than 5 fields is rejected
\* (no record, error_count + 1, no exception); a non-blank data row with 5 or
\* more fields yields a record built from its first 5 fields only, has the
\* outcome of its truncation to 5 fields when those 5 are not all empty, and is
\* rejected when they are all empty (its truncation would be skipped as blank).
C1_ExcessFieldsIgnored ==
    [][ReadStep /\ ~IsBlank(RowRead) =>
          /\ Len(RowRead) < 5 => RowRejected /\ ret' = ret
          /\ Len(RowRead) >= 5 =>
                /\ records' \in {records,
                                  Append(records,
                                         ProjectRecord(RowRead[1], RowRead[2], RowRead[3],
                                                       RowRead[4], RowRead[5]))}
                /\ ~IsBlank(FirstFive(RowRead)) =>
                      /\ records' = OutcomeOf(FirstFive(RowRead)).records
                      /\ error_count' = OutcomeOf(FirstFive(RowRead)).error_count
                /\ IsBlank(FirstFive(RowRead)) => RowRejected]_vars

\* a short non-blank row was rejected and then a row with an excess field kept
C1_Witness ==
    /\ pc = "rows" /\ Len(rows) = 3
    /\ Len(rows[2]) \in 1..4 /\ ~IsBlank(rows[2])
    /\ Len(rows[3]) > 5
    /\ error_count = 1 /\ Len(records) = 1

\* a record is valid iff its date parsed and its duration is strictly positive
DateParsed(row) == strptime(strip(row[1])) # 0
DurationPositive(row) == ~FloatRaises(row[3]) /\ FGt(float(row[3]), Fin(0))
RowValid(row) == Len(row) >= 5 /\ DateParsed(row) /\ DurationPositive(row)

\* the records of the valid rows among the given data rows, in file order
RECURSIVE ValidRecordsOf(_)
ValidRecordsOf(data) ==
    IF data = <<>> THEN <<>>
    ELSE LET before == ValidRecordsOf(SubSeq(data, 1, Len(data) - 1))
             row == data[Len(data)]
         IN  IF RowValid(row)
             THEN Append(before, ProjectRecord(row[1], row[2], row[3], row[4], row[5]))
             ELSE before

DataRows(rs) == SubSeq(rs, 2, Len(rs))

LoadSucceeded == pc' = "load_returned" /\ ret' = "True"

AllRecordsValid ==
    \A i \in 1..Len(records') :
        records'[i].date # 0 /\ FGt(records'[i].duration, Fin(0))

\* C2, as stated: after a successful load records is the file-order subsequence
\* of the valid data rows; every data row with at least 5 fields whose date is
\* unparseable or whose duration is not strictly positive is not kept and adds
\* exactly 1 to error_count; the analyzer only ever sees valid records.
C2_AsStated ==
    [][/\ LoadSucceeded => records' = ValidRecordsOf(DataRows(rows'))
       /\ ReadStep /\ Len(RowRead) >= 5 /\ ~RowValid(RowRead) => RowRejected
       /\ DOMAIN results' # {} => AllRecordsValid]_vars

\* C2, amended: the same, the second part for every non-blank data row (an
\* all-empty row of 5 or more fields is skipped without being counted).
C2_OnlyValidRecordsKept ==
    [][/\ LoadSucceeded => records' = ValidRecordsOf(DataRows(rows'))
       /\ ReadStep /\ Len(RowRead) >= 5 /\ ~IsBlank(RowRead) /\ ~RowValid(RowRead)
             => RowRejected
       /\ DOMAIN results' # {} => AllRecordsValid]_vars

\* a load that rejected a complete row with a bad date or duration and kept
\* the valid row after it
C2_Witness ==
    /\ pc = "load_returned" /\ ret = "True" /\ Len(rows) = 3
    /\ Len(rows[2]) >= 5 /\ ~IsBlank(rows[2]) /\ ~RowValid(rows[2])
    /\ RowValid(rows[3])
    /\ Len(records) = 1 /\ error_count = 1

\* C3: the first row of the file, whatever it holds, and every later row whose
\* fields are all empty, of any length, leave records and error_count unchanged.
C3_HeaderAndBlankRowsSkipped ==
    [][/\ pc = "header" /\ pc' = "rows" => RowSkipped
       /\ ReadStep /\ IsBlank(RowRead) => RowSkipped]_vars

\* a well-formed data row was consumed as the header, then an all-empty row of
\* 5 fields and an all-empty row of fewer than 5 fields were read
C3_Witness ==
    /\ pc = "rows" /\ Len(rows) = 3
    /\ rows[1] = WellFormed
    /\ rows[2] = Blank(5)
    /\ Len(rows[3]) \in 1..4 /\ IsBlank(rows[3])
    /\ records = <<>> /\ error_count = 0

\* C4, as stated: whenever load_data returns False it has reported the failure
\* and the loader's records collection is empty.
C4_AsStated ==
    pc = "load_returned" /\ ret = "False" =>
        /\ out[Len(out)] \in {FatalNotFound, FatalParsing}
        /\ records = <<>>

ReportStarted == \E i \in 1..Len(out) : out[i].msg = "report_title"
ReportRendered == \E i \in 1..Len(out) : out[i].msg = "report_generated_on"
RunOver == pc \in {"done", "raised"}
LoadedSomething == ret = "True" /\ records # <<>>

\* C5, as stated: the analyzer runs only after a successful load and the report
\* only after the analyzer; when the run is over the report has been rendered
\* iff load_data succeeded and a valid record was loaded; otherwise the run
\* ended on a termination message with no analysis, no report and no exception.
C5_AsStated ==
    /\ DOMAIN results # {} => ret = "True"
    /\ ReportStarted => DOMAIN results # {}
    /\ RunOver => (ReportRendered <=> LoadedSomething)
    /\ RunOver /\ ~LoadedSomething =>
          /\ pc = "done"
          /\ out[Len(out)] \in {TerminatedParseFailure, TerminatedNoRecords}
          /\ DOMAIN results = {}
          /\ ~ReportStarted

---------------------------------------------------------------------------
(* Claims about ProjectAnalyzer *)

\* run_all_analysis has returned
Analyzed == "modules" \in DOMAIN results

WordIndex(w) == CHOOSE k \in 1..Len(NEGATIVE_WORDS) : NEGATIVE_WORDS[k] = w

\* C6, as stated: top_words has at most 3 entries, in descending tally, and two
\* keywords of equal tally are in their NEGATIVE_WORDS order.
C6_AsStated ==
    Analyzed =>
        LET tw == results.risk.top_words
        IN  /\ Len(tw) <= 3
            /\ \A i \in 1..Len(tw) : \A j \in 1..Len(tw) :
                  i < j =>
                    /\ tw[i].count >= tw[j].count
                    /\ tw[i].count = tw[j].count =>
                          WordIndex(tw[i].word) < WordIndex(tw[j].word)

\* the sum of the durations of the records at the given positions
RECURSIVE SumOver(_)
SumOver(S) ==
    IF S = {} THEN Fin(0)
    ELSE LET i == CHOOSE i \in S : TRUE
         IN  FAdd(records[i].duration, SumOver(S \ {i}))

ModuleLabels == {records[i].module : i \in 1..Len(records)}
RecordsOf(m) == {i \in 1..Len(records) : records[i].module = m}
FirstSeen(m) == CHOOSE i \in RecordsOf(m) : \A j \in RecordsOf(m) : i <= j

\* C7: the module list has one entry per distinct module label (exact match),
\* each with the sum of its records' durations, in descending duration, two
\* modules of equal duration in the order of their first record.
C7_ModulesSortedStable ==
    Analyzed =>
        LET ms == results.modules
        IN  /\ Len(ms) = Cardinality(ModuleLabels)
            /\ {ms[j].module : j \in 1..Len(ms)} = ModuleLabels
            /\ \A j \in 1..Len(ms) : ms[j].duration = SumOver(RecordsOf(ms[j].module))
            /\ \A j \in 1..Len(ms) : \A l \in 1..Len(ms) :
                  j < l =>
                    /\ FGe(ms[j].duration, ms[l].duration)
                    /\ FEq(ms[j].duration, ms[l].duration) =>
                          FirstSeen(ms[j].module) < FirstSeen(ms[l].module)

\* two modules tie, one of them by the sum of two records, and the module met
\* first is listed first
C7_Witness ==
    /\ Analyzed /\ Len(records) = 3 /\ Len(results.modules) = 2
    /\ results.modules[1].module = "UI" /\ results.modules[2].module = "Auth"
    /\ records[1].module = "UI"
    /\ FEq(results.modules[1].duration, results.modules[2].duration)

RECURSIVE SumPercentages(_)
SumPercentages(ms) ==
    IF ms = <<>> THEN Fin(0)
    ELSE FAdd(SumPercentages(SubSeq(ms, 1, Len(ms) - 1)), ms[Len(ms)].percentage)

\* C8, as stated: whenever the grand total is greater than 0 the per-module
\* durations add up to the sum of all record durations and the percentages
\* sum to 100; with no records the module list is empty and they sum to 0.
C8_AsStated ==
    Analyzed =>
        /\ FGt(results.total_duration, Fin(0)) =>
              /\ FEq(results.total_duration, SumOver(1..Len(records)))
              /\ FEq(SumPercentages(results.modules), Fin(100))
        /\ records = <<>> =>
              /\ results.modules = <<>>
              /\ FEq(SumPercentages(results.modules), Fin(0))

DateSet == {records[i].date : i \in 1..Len(records)}

\* C10: on a non-empty list total_duration is the sum of the durations,
\* work_days the number of distinct dates (between 1 and the number of
\* records), start_date and end_date the least and greatest date, and
\* avg_daily is total_duration / work_days; on an empty list total_duration
\* and avg_daily are 0 and nothing else is reported.
C10_TimeEfficiency ==
    Analyzed =>
        LET t == results.time
        IN  /\ records # <<>> =>
                  /\ t.total_duration = SumOver(1..Len(records))
                  /\ t.work_days = Cardinality(DateSet)
                  /\ 1 <= t.work_days /\ t.work_days <= Len(records)
                  /\ strip(t.start_date) = t.start_date
                  /\ strip(t.end_date) = t.end_date
                  /\ strptime(t.start_date) \in DateSet
                  /\ strptime(t.end_date) \in DateSet
                  /\ \A d \in DateSet :
                        strptime(t.start_date) <= d /\ d <= strptime(t.end_date)
                  /\ strptime(t.start_date) <= strptime(t.end_date)
                  /\ IF t.total_duration.k = "fin"
                     THEN /\ t.avg_daily.k = "fin"
                          /\ t.avg_daily.n * t.total_duration.d * t.work_days
                               = t.total_duration.n * t.avg_daily.d
                     ELSE t.avg_daily = t.total_duration
            /\ records = <<>> =>
                  /\ DOMAIN t = {"total_duration", "avg_daily"}
                  /\ t.total_duration = Fin(0) /\ t.avg_daily = Fin(0)

\* three records on two distinct dates, two of them on the same date written
\* differently
C10_Witness ==
    /\ Analyzed /\ Len(records) = 3
    /\ results.time.work_days = 2
    /\ \E i \in 1..3 : \E j \in 1..3 :
          records[i].date = records[j].date /\ records[i].date_str # records[j].date_str
    /\ results.time.start_date = "2024-01-01" /\ results.time.end_date = "2024-01-02"

---------------------------------------------------------------------------
(* The claim about the risk verdict, checked under SpecRiskReport *)

VerdictLines == {i \in 1..Len(out) : out[i].msg = "ai_risk_assessment"}
Verdict == out[CHOOSE i \in VerdictLines : TRUE].args[1]

\* C9: for 0 <= negative <= total and total > 0 exactly one verdict is printed:
\* HIGH iff 100 * negative / total >= 30, MEDIUM iff it is >= 15 and < 30,
\* LOW iff it is < 15.
C9_RiskTiers ==
    pc = "risk_reported" /\ results.risk.total_count > 0 =>
        LET n == results.risk.negative_count
            t == results.risk.total_count
        IN  /\ Cardinality(VerdictLines) = 1
            /\ Verdict = "HIGH RISK" <=> 100 * n >= 30 * t
            /\ Verdict = "MEDIUM RISK" <=> (100 * n >= 15 * t /\ 100 * n < 30 * t)
            /\ Verdict = "LOW RISK" <=> 100 * n < 15 * t

\* exactly 15 percent (3 of 20) was given the MEDIUM verdict
C9_Witness ==
    /\ pc = "risk_reported"
    /\ results.risk.negative_count = 3 /\ results.risk.total_count = 20
    /\ Verdict = "MEDIUM RISK"

=============================================================================
